---- MODULE Spec2Model ----
(***************************************************************************)
(* A model of slackdump's chunked archive engine: the chunk identity       *)
(* scheme (package chunk, Chunk.ID) and the chunk Directory                *)
(* (internal/chunk/directory.go): Create / Open / OpenRAW / Users /        *)
(* Channels over a folder of GZIP-compressed chunk files.                  *)
(***************************************************************************)
EXTENDS Integers, Sequences, FiniteSets, TLC

VARIABLES
    chunk,      \* the Chunk under test (SpecChunk)
    idOut,      \* what the last Chunk.ID() call returned, or NoCall
    fs,         \* the file system: path -> node
    writers,    \* the writers handed out by Directory.Create, in order
    ret,        \* the record of the last Directory operation
    gen,        \* the generator of an EntityList: its task, channel and consumer
    mgr,        \* the cache Manager under construction and the option applied
    ent,        \* the entity list functions: their input and what they returned
    wsp         \* the Manager's cache directory and its last workspace operation

vars == <<chunk, idOut, fs, writers, ret, gen, mgr, ent, wsp>>

chunkVars == <<chunk, idOut>>
dirVars == <<fs, writers, ret>>
genVars == <<gen, ent>>
mgrVars == <<mgr, wsp>>

(***************************************************************************)
(* Part 1.  Chunk model and identity.                                      *)
(***************************************************************************)

\* ChunkType is an integer type; the chunk kinds are its named values, in
\* the order the enumeration lists them.
CMessages == 0

CThreadMessages == 1

CFiles == 2

CChannelInfo == 3

CUsers == 4

CChannels == 5

KnownTypes == {CMessages, CThreadMessages, CFiles, CChannelInfo, CUsers, CChannels}

\* Out-of-range ChunkType values (999 is the one the test uses).
UnknownTypes == {6, 999}

ChunkTypes == KnownTypes \cup UnknownTypes

\* A nil *slack.Message.
NoParent == [nil |-> TRUE]

\* The zero value of slack.Message, as far as identity reads it.
ZeroMessage == [nil |-> FALSE, Timestamp |-> "", ThreadTimestamp |-> ""]

\* Sentinel identities of the workspace-wide chunks.
userChunkID == "lusr"

channelChunkID == "lch"

\* ChunkType.String() of a value without a name.
ChunkTypeString(t) == "ChunkType(" \o ToString(t) \o ")"

\* The parent a ThreadMessages/Files identity is anchored on: an absent
\* parent reads as the zero-value message.
Anchor(c) == IF c.Parent.nil THEN ZeroMessage ELSE c.Parent

\* A variant of ID that reads the parent's field without looking whether
\* the parent is there: the call ends in a nil dereference.
ID_derefs(c) ==
    CASE c.Type = CMessages -> c.ChannelID
      [] c.Type = CThreadMessages ->
            IF c.Parent.nil THEN "panic: nil pointer dereference"
            ELSE "t" \o c.ChannelID \o ":" \o c.Parent.ThreadTimestamp
      [] c.Type = CFiles ->
            IF c.Parent.nil THEN "panic: nil pointer dereference"
            ELSE "f" \o c.ChannelID \o ":" \o c.Parent.Timestamp
      [] c.Type = CChannelInfo ->
            IF c.IsThread THEN "tci" \o c.ChannelID ELSE "ci" \o c.ChannelID
      [] c.Type = CUsers -> userChunkID
      [] c.Type = CChannels -> channelChunkID
      [] OTHER -> "<unknown:" \o ChunkTypeString(c.Type) \o ">"

\* Chunk.ID(): the identity of a chunk.
ID(c) ==
    CASE c.Type = CMessages -> c.ChannelID
      [] c.Type = CThreadMessages -> "t" \o c.ChannelID \o ":" \o Anchor(c).ThreadTimestamp
      [] c.Type = CFiles -> "f" \o c.ChannelID \o ":" \o Anchor(c).Timestamp
      [] c.Type = CChannelInfo ->
            IF c.IsThread THEN "tci" \o c.ChannelID ELSE "ci" \o c.ChannelID
      [] c.Type = CUsers -> userChunkID
      [] c.Type = CChannels -> channelChunkID
      [] OTHER -> "<unknown:" \o ChunkTypeString(c.Type) \o ">"

\* A slack.Channel record, as far as the archive reads it.
ChannelRec(id) == [ID |-> id]

\* A nil *slack.Channel.
NoChannel == [ID |-> "<nil>"]

\* The Chunk literal of the test: the fields a case sets, the others zero.
MkChunk(t, thr, cid, par) ==
    [Type |-> t, Timestamp |-> 0, IsThread |-> thr, Count |-> 0,
     Channel |-> NoChannel, ChannelID |-> cid, Parent |-> par,
     Messages |-> <<>>, Files |-> <<>>, Users |-> <<>>]

\* The test table with the expectation of the "channel info (thread)" case
\* written as that of the plain channel info case.
TestChunk_ID_tests_samewant ==
    << [name |-> "messages", fields |-> MkChunk(CMessages, FALSE, "C123", NoParent),
        want |-> "C123"],
       [name |-> "threads",
        fields |-> MkChunk(CThreadMessages, FALSE, "C123",
                           [nil |-> FALSE, Timestamp |-> "", ThreadTimestamp |-> "1234"]),
        want |-> "tC123:1234"],
       [name |-> "files",
        fields |-> MkChunk(CFiles, FALSE, "C123",
                           [nil |-> FALSE, Timestamp |-> "1234", ThreadTimestamp |-> ""]),
        want |-> "fC123:1234"],
       [name |-> "channel info", fields |-> MkChunk(CChannelInfo, FALSE, "C123", NoParent),
        want |-> "ciC123"],
       [name |-> "channel info (thread)",
        fields |-> MkChunk(CChannelInfo, TRUE, "C123", NoParent),
        want |-> "ciC123"],
       [name |-> "users", fields |-> MkChunk(CUsers, FALSE, "", NoParent),
        want |-> userChunkID],
       [name |-> "channels", fields |-> MkChunk(CChannels, FALSE, "", NoParent),
        want |-> channelChunkID],
       [name |-> "unknown", fields |-> MkChunk(999, FALSE, "", NoParent),
        want |-> "<unknown:ChunkType(999)>"] >>

\* The test table of TestChunk_ID: the fields each case sets, and the
\* identity it wants.
TestChunk_ID_tests ==
    << [name |-> "messages", fields |-> MkChunk(CMessages, FALSE, "C123", NoParent),
        want |-> "C123"],
       [name |-> "threads",
        fields |-> MkChunk(CThreadMessages, FALSE, "C123",
                           [nil |-> FALSE, Timestamp |-> "", ThreadTimestamp |-> "1234"]),
        want |-> "tC123:1234"],
       [name |-> "files",
        fields |-> MkChunk(CFiles, FALSE, "C123",
                           [nil |-> FALSE, Timestamp |-> "1234", ThreadTimestamp |-> ""]),
        want |-> "fC123:1234"],
       [name |-> "channel info", fields |-> MkChunk(CChannelInfo, FALSE, "C123", NoParent),
        want |-> "ciC123"],
       [name |-> "channel info (thread)",
        fields |-> MkChunk(CChannelInfo, TRUE, "C123", NoParent),
        want |-> "tciC123"],
       [name |-> "users", fields |-> MkChunk(CUsers, FALSE, "", NoParent),
        want |-> userChunkID],
       [name |-> "channels", fields |-> MkChunk(CChannels, FALSE, "", NoParent),
        want |-> channelChunkID],
       [name |-> "unknown", fields |-> MkChunk(999, FALSE, "", NoParent),
        want |-> "<unknown:ChunkType(999)>"] >>

\* The test body: the identity of the chunk built from a case's fields.
TestChunk_ID_got(i) == ID(TestChunk_ID_tests[i].fields)

\* The inputs of the chunk specification.
ChannelIDs == {"", "C123"}

Stamps == {"", "1234"}

Parents ==
    {NoParent} \cup
    [nil : {FALSE}, Timestamp : Stamps, ThreadTimestamp : Stamps]

\* The largest capture time and item count of a chunk under test.
MaxInfo == 1

Infos == 0 .. MaxInfo

\* The payloads a chunk under test carries: none, messages, or users.
Payloads ==
    { [Messages |-> <<>>, Users |-> <<>>],
      [Messages |-> <<"m1">>, Users |-> <<>>],
      [Messages |-> <<>>, Users |-> <<"u1">>] }

IdentityFields ==
    [Type : ChunkTypes, IsThread : BOOLEAN, ChannelID : ChannelIDs, Parent : Parents]

WithInfo(k, ts, n, p) ==
    [Type |-> k.Type, Timestamp |-> ts, IsThread |-> k.IsThread, Count |-> n,
     Channel |-> NoChannel, ChannelID |-> k.ChannelID, Parent |-> k.Parent,
     Messages |-> p.Messages, Files |-> <<>>, Users |-> p.Users]

NoCall == [called |-> FALSE]

InitChunk ==
    /\ \E k \in IdentityFields :
          chunk = WithInfo(k, 0, 0, [Messages |-> <<>>, Users |-> <<>>])
    /\ idOut = NoCall
    /\ gen = <<>>
    /\ mgr = <<>>
    /\ ent = <<>>
    /\ wsp = <<>>
    /\ fs = <<>>
    /\ writers = <<>>
    /\ ret = [op |-> "none"]

\* A caller takes the identity of the chunk: the chunk is only read.
CallID ==
    /\ idOut' = [called |-> TRUE, id |-> ID(chunk), of |-> chunk]
    /\ UNCHANGED chunk
    /\ UNCHANGED <<dirVars, genVars, mgrVars>>

\* The producer sets the informational fields (capture time, item count,
\* payload) of the chunk.
SetInfo ==
    /\ \E ts \in Infos, n \in Infos, p \in Payloads :
          chunk' = [chunk EXCEPT !.Timestamp = ts, !.Count = n,
                                 !.Messages = p.Messages, !.Users = p.Users]
    /\ UNCHANGED idOut
    /\ UNCHANGED <<dirVars, genVars, mgrVars>>

NextChunk == CallID \/ SetInfo

\* The chunk specification: a chunk of any kind, its identity taken at any
\* time while the producer fills in the informational fields.
SpecChunk == InitChunk /\ [][NextChunk]_vars

(***************************************************************************)
(* Part 2.  Bytes: the JSON text of chunks and channel lists, and GZIP.    *)
(* A file's content is a sequence of tokens, each standing for a run of    *)
(* bytes.                                                                  *)
(***************************************************************************)

\* Concatenation of a sequence of sequences.
RECURSIVE Flatten(_)
Flatten(ss) == IF ss = <<>> THEN <<>> ELSE Head(ss) \o Flatten(Tail(ss))

\* The JSON text of one chunk: one self-contained object.
JSONChunk(c) == [k |-> "chunk", v |-> <<c>>]

\* The JSON text of a channel list: one array of channel records.
JSONArray(chs) == [k |-> "array", v |-> chs]

\* Bytes that are no JSON value.
JSONJunk == [k |-> "junk", v |-> <<>>]

\* json.Encoder.Encode of a sequence of chunks, one after another.
EncodeChunks(cs) == [i \in 1 .. Len(cs) |-> JSONChunk(cs[i])]

\* The GZIP member header, a run of deflated bytes, and the member trailer
\* (checksum and length of the uncompressed data).
GZHeader == [k |-> "gzhdr", v |-> <<>>]

Deflated(b) == [k |-> "z", v |-> <<b>>]

GZTrailer(plain) == [k |-> "gztrl", v |-> plain]

Deflate(plain) == [i \in 1 .. Len(plain) |-> Deflated(plain[i])]

\* A complete GZIP file of the given plain bytes.
GZip(plain) == <<GZHeader>> \o Deflate(plain) \o <<GZTrailer(plain)>>

\* osext.UnGZIP: the plain bytes of a GZIP file, copied to a temporary file;
\* an error when the data is no complete, intact GZIP member.
UnGZIP(data) ==
    IF data = <<>> THEN [err |-> "EOF", plain |-> <<>>]
    ELSE IF Head(data) # GZHeader THEN [err |-> "gzip: invalid header", plain |-> <<>>]
    ELSE LET body == Tail(data)
             IsZ(b) == b.k = "z"
             n == IF \E i \in 1 .. Len(body) : ~IsZ(body[i])
                  THEN (CHOOSE i \in 1 .. Len(body) :
                           ~IsZ(body[i]) /\ \A j \in 1 .. i - 1 : IsZ(body[j])) - 1
                  ELSE Len(body)
             plain == [i \in 1 .. n |-> body[i].v[1]]
         IN  IF n = Len(body) THEN [err |-> "unexpected EOF", plain |-> <<>>]
             ELSE IF body[n + 1].k # "gztrl" THEN [err |-> "flate: corrupt input", plain |-> <<>>]
             ELSE IF body[n + 1].v # plain THEN [err |-> "gzip: invalid checksum", plain |-> <<>>]
             ELSE [err |-> "", plain |-> plain]

\* json.Decoder.Decode into a []slack.Channel: the first JSON value of the
\* stream, which must be an array.
readChannelsJSON(plain) ==
    IF plain = <<>> THEN [err |-> "EOF", val |-> <<>>]
    ELSE IF Head(plain).k = "array" THEN [err |-> "", val |-> Head(plain).v]
    ELSE IF Head(plain).k = "chunk"
         THEN [err |-> "json: cannot unmarshal object", val |-> <<>>]
    ELSE [err |-> "json: invalid character", val |-> <<>>]

\* The index a File keeps: for each identity, the positions in the stream
\* of the chunks that have it, in stream order.
IndexOf(cs) ==
    [id \in {ID(cs[i]) : i \in 1 .. Len(cs)} |->
        SelectSeq([i \in 1 .. Len(cs) |-> i], LAMBDA i : ID(cs[i]) = id)]

\* FromReader: decodes the stream chunk by chunk and indexes it; an error
\* when a value of the stream is no chunk.
FromReader(plain) ==
    IF \E i \in 1 .. Len(plain) : plain[i].k # "chunk"
    THEN [err |-> "json: cannot decode chunk", chunks |-> <<>>]
    ELSE [err |-> "", chunks |-> [i \in 1 .. Len(plain) |-> plain[i].v[1]]]

errNoChannelInfo == "no channel info"

\* File.AllChannelInfos: the channel record of every ChannelInfo chunk, in
\* file order; errNoChannelInfo when the file has none.
AllChannelInfos(cf) ==
    LET infos == SelectSeq(cf.chunks, LAMBDA c : c.Type = CChannelInfo)
    IN  IF infos = <<>> THEN [err |-> errNoChannelInfo, val |-> <<>>]
        ELSE [err |-> "", val |-> [i \in 1 .. Len(infos) |-> infos[i].Channel]]

\* File.AllUsers: the users of every Users chunk, in file order.
AllUsers(cf) ==
    LET us == SelectSeq(cf.chunks, LAMBDA c : c.Type = CUsers)
    IN  [err |-> "", val |-> Flatten([i \in 1 .. Len(us) |-> us[i].Users])]

(***************************************************************************)
(* Part 3.  The file system and the Directory.                             *)
(***************************************************************************)

\* The chunk file extension.
ext == ".json.gz"

\* The directory the Directory is opened over (Directory.dir), relative to
\* the working directory of the process, which is the empty path.
Dir == <<"arch">>

\* filepath.Join: a path is the sequence of its elements.
Join(dir, name) == Append(dir, name)

\* Directory.filename: the full path of the chunk file with the given name.
filename(name) == Join(Dir, name \o ext)

\* The logical names callers create and open, and the other stems a file
\* name with the chunk extension has.
LogicalNames == {"C1", "channels", "users"}

Stems == LogicalNames \cup {"C2"}

\* strings.HasSuffix(path, ext): the extension has no separator in it, so it
\* is a suffix of the path when it is one of the last element.
HasSuffixExt(path) ==
    /\ path # <<>>
    /\ \E b \in Stems : path[Len(path)] = b \o ext

\* The paths of the modelled file system.
AllPaths ==
    { Dir,
      filename("C1"), filename("channels"), filename("users"),
      Join(Dir, "notes.txt"),
      Join(Dir, "sub"), Join(Join(Dir, "sub"), "C2" \o ext),
      <<"C1" \o ext>> }

\* The file names, in the byte order os.ReadDir sorts directory entries by.
NameOrder ==
    <<"C1.json.gz", "C2.json.gz", "arch", "channels.json.gz", "notes.txt", "sub",
      "users.json.gz">>

NameRank(n) == CHOOSE i \in 1 .. Len(NameOrder) : NameOrder[i] = n

\* File system nodes.
Absent == [kind |-> "none", data |-> <<>>]

DirNode == [kind |-> "dir", data |-> <<>>]

FileNode(data) == [kind |-> "file", data |-> data]

\* os.Stat: an error for a path with no node; else the node's kind and size.
Stat(f, path) ==
    IF path \notin DOMAIN f \/ f[path].kind = "none"
    THEN [err |-> "ENOENT", IsDir |-> FALSE, Size |-> 0]
    ELSE [err |-> "", IsDir |-> f[path].kind = "dir", Size |-> Len(f[path].data)]

\* os.File.Write at the handle's offset: the bytes replace what the file has
\* there and extend it (the file is opened without O_TRUNC and O_APPEND).
WriteAt(data, off, bytes) ==
    LET end == off + Len(bytes)
    IN  SubSeq(data, 1, off) \o bytes \o
        (IF Len(data) > end THEN SubSeq(data, end + 1, Len(data)) ELSE <<>>)

\* The result of a Directory operation: the operation and its argument, the
\* error ("" is nil), the value returned, the files handed to openChunks in
\* order, those of them opened with os.Open, and the handles the operation
\* opened that are still open when it returns.
Result(op, arg, err, val, visited, opened, left) ==
    [op |-> op, arg |-> arg, err |-> err, val |-> val,
     visited |-> visited, opened |-> opened, left |-> left]

NoResult == Result("none", <<>>, "", <<>>, <<>>, <<>>, <<>>)

\* The handle os.Open returns for a file, and the decompressed temporary
\* stream UnGZIP makes of it.
RawHandle(path) == [h |-> "file", path |-> path]

TmpStream(path) == [h |-> "tmp", path |-> path]

\* Close of a handle: it is no longer among the open ones.
Release(hs, h) == SelectSeq(hs, LAMBDA x : x # h)

\* openChunks without the look at the file's kind and size: whatever is at
\* the path is handed to the decompressor.
openChunks_nocheck(f, path) ==
    LET fi == Stat(f, path)
    IN  IF fi.err # "" THEN [err |-> fi.err, plain |-> <<>>, opened |-> <<>>, left |-> <<>>]
        ELSE LET tf == UnGZIP(f[path].data)
                 hs == <<RawHandle(path)>> \o
                       (IF tf.err = "" THEN <<TmpStream(path)>> ELSE <<>>)
             IN  [err |-> tf.err, plain |-> tf.plain, opened |-> <<path>>,
                  left |-> Release(hs, RawHandle(path))]

\* openChunks: the decompressed stream of an existing, non-empty chunk file.
openChunks(f, path) ==
    LET fi == Stat(f, path)
    IN  IF fi.err # "" THEN [err |-> fi.err, plain |-> <<>>, opened |-> <<>>, left |-> <<>>]
        ELSE IF fi.IsDir
             THEN [err |-> "chunk file is a directory", plain |-> <<>>, opened |-> <<>>,
                   left |-> <<>>]
        ELSE IF fi.Size = 0
             THEN [err |-> "chunk file is empty", plain |-> <<>>, opened |-> <<>>,
                   left |-> <<>>]
        ELSE LET tf == UnGZIP(f[path].data)
                 hs == <<RawHandle(path)>> \o
                       (IF tf.err = "" THEN <<TmpStream(path)>> ELSE <<>>)
             IN  [err |-> tf.err, plain |-> tf.plain, opened |-> <<path>>,
                  left |-> Release(hs, RawHandle(path))]

\* loadChannelsJSON: the channel list of a GZIP-compressed JSON array file.
loadChannelsJSON(f, fullpath) ==
    LET cf == openChunks(f, fullpath)
    IN  IF cf.err # ""
        THEN [err |-> cf.err, val |-> <<>>, opened |-> cf.opened, left |-> cf.left]
        ELSE LET r == readChannelsJSON(cf.plain)
             IN  [err |-> r.err, val |-> r.val, opened |-> cf.opened,
                  left |-> Release(cf.left, TmpStream(fullpath))]

\* readChanInfo: the channel infos of a decompressed chunk stream.
readChanInfo(plain) ==
    LET cf == FromReader(plain)
    IN  IF cf.err # "" THEN [err |-> cf.err, val |-> <<>>]
        ELSE AllChannelInfos(cf)

\* loadChanInfo: the channel infos of one chunk file.
loadChanInfo(f, fullpath) ==
    LET cf == openChunks(f, fullpath)
    IN  IF cf.err # ""
        THEN [err |-> cf.err, val |-> <<>>, opened |-> cf.opened, left |-> cf.left]
        ELSE LET r == readChanInfo(cf.plain)
             IN  [err |-> r.err, val |-> r.val, opened |-> cf.opened,
                  left |-> Release(cf.left, TmpStream(fullpath))]

Last(path) == path[Len(path)]

\* os.ReadDir: the entries of a directory, sorted by file name.
RECURSIVE SortByName(_)
SortByName(S) ==
    IF S = {} THEN <<>>
    ELSE LET m == CHOOSE q \in S :
                    \A r \in S : NameRank(Last(q)) <= NameRank(Last(r))
         IN  <<m>> \o SortByName(S \ {m})

ReadDir(f, p) ==
    SortByName({q \in DOMAIN f :
                  /\ Len(q) = Len(p) + 1
                  /\ SubSeq(q, 1, Len(p)) = p
                  /\ f[q].kind # "none"})

\* filepath.WalkDir: the root, then the entries of each directory in name
\* order, each directory followed by what is below it.
RECURSIVE WalkDir(_, _)
WalkDir(f, p) ==
    <<p>> \o
    (IF f[p].kind = "dir"
     THEN LET es == ReadDir(f, p)
          IN  Flatten([i \in 1 .. Len(es) |-> WalkDir(f, es[i])])
     ELSE <<>>)

\* The walk function of Channels with errNoChannelInfo returned like any
\* other error.
RECURSIVE walkFn_noinfoends(_, _, _, _, _, _)
walkFn_noinfoends(f, paths, ch, visited, opened, left) ==
    IF paths = <<>>
    THEN [err |-> "", ch |-> ch, visited |-> visited, opened |-> opened, left |-> left]
    ELSE LET path == Head(paths)
         IN  IF ~HasSuffixExt(path) THEN walkFn_noinfoends(f, Tail(paths), ch, visited, opened, left)
             ELSE IF f[path].kind = "dir"
                  THEN walkFn_noinfoends(f, Tail(paths), ch, visited, opened, left)
             ELSE LET chs == loadChanInfo(f, path)
                      vis == Append(visited, path)
                      opn == opened \o chs.opened
                      lft == left \o chs.left
                  IN  IF chs.err # ""
                      THEN [err |-> chs.err, ch |-> ch, visited |-> vis, opened |-> opn, left |-> lft]
                      ELSE walkFn_noinfoends(f, Tail(paths), ch \o chs.val, vis, opn, lft)

\* The walk function of Channels, applied to the paths of the walk in
\* order, with the channels collected so far: a path that has not the chunk
\* extension or is a directory is passed over; errNoChannelInfo lets the
\* walk go on; any other error ends it.
RECURSIVE walkFn(_, _, _, _, _, _)
walkFn(f, paths, ch, visited, opened, left) ==
    IF paths = <<>>
    THEN [err |-> "", ch |-> ch, visited |-> visited, opened |-> opened, left |-> left]
    ELSE LET path == Head(paths)
         IN  IF ~HasSuffixExt(path) THEN walkFn(f, Tail(paths), ch, visited, opened, left)
             ELSE IF f[path].kind = "dir" THEN walkFn(f, Tail(paths), ch, visited, opened, left)
             ELSE LET chs == loadChanInfo(f, path)
                      vis == Append(visited, path)
                      opn == opened \o chs.opened
                      lft == left \o chs.left
                  IN  IF chs.err # ""
                      THEN IF chs.err = errNoChannelInfo
                           THEN walkFn(f, Tail(paths), ch, vis, opn, lft)
                           ELSE [err |-> chs.err, ch |-> ch, visited |-> vis, opened |-> opn, left |-> lft]
                      ELSE walkFn(f, Tail(paths), ch \o chs.val, vis, opn, lft)

\* Directory.Channels without the look for the channels file: always the
\* walk over the chunk files.
Channels_scanonly(f) ==
    LET w == walkFn(f, WalkDir(f, Dir), <<>>, <<>>, <<>>, <<>>)
    IN  IF w.err # ""
        THEN Result("Channels", <<>>, w.err, <<>>, w.visited, w.opened, w.left)
        ELSE Result("Channels", <<>>, "", w.ch, w.visited, w.opened, w.left)

\* Directory.Channels returning what the walk collected before it failed.
Channels_partial(f) ==
    LET fi == Stat(f, filename("channels"))
    IN  IF fi.err = "" /\ ~fi.IsDir
        THEN LET r == loadChannelsJSON(f, filename("channels"))
             IN  Result("Channels", <<>>, r.err, r.val, <<filename("channels")>>, r.opened, r.left)
        ELSE LET w == walkFn(f, WalkDir(f, Dir), <<>>, <<>>, <<>>, <<>>)
             IN  Result("Channels", <<>>, w.err, w.ch, w.visited, w.opened, w.left)

\* Directory.Channels taking the channels file only when it can be read: a
\* channels file that fails to load sends it on to the walk.
Channels_readable(f) ==
    LET fi == Stat(f, filename("channels"))
        r == loadChannelsJSON(f, filename("channels"))
        w == walkFn(f, WalkDir(f, Dir), <<>>, <<>>, <<>>, <<>>)
    IN  IF fi.err = "" /\ ~fi.IsDir /\ r.err = ""
        THEN Result("Channels", <<>>, r.err, r.val, <<filename("channels")>>, r.opened, r.left)
        ELSE IF w.err # ""
             THEN Result("Channels", <<>>, w.err, <<>>, w.visited, w.opened, w.left)
             ELSE Result("Channels", <<>>, "", w.ch, w.visited, w.opened, w.left)

\* Directory.Channels: the channels file when there is one, else the channel
\* infos of all the chunk files below the directory.
Channels(f) ==
    LET fi == Stat(f, filename("channels"))
    IN  IF fi.err = "" /\ ~fi.IsDir
        THEN LET r == loadChannelsJSON(f, filename("channels"))
             IN  Result("Channels", <<>>, r.err, r.val, <<filename("channels")>>, r.opened, r.left)
        ELSE LET w == walkFn(f, WalkDir(f, Dir), <<>>, <<>>, <<>>, <<>>)
             IN  IF w.err # ""
                 THEN Result("Channels", <<>>, w.err, <<>>, w.visited, w.opened, w.left)
                 ELSE Result("Channels", <<>>, "", w.ch, w.visited, w.opened, w.left)

\* Directory.Users falling back, like Channels, to the Users chunks of the
\* other chunk files when the users file cannot be opened.
Users_fallback(f) ==
    LET cf == openChunks(f, filename("users"))
        other == openChunks(f, filename("C1"))
    IN  IF cf.err # ""
        THEN IF other.err = "" /\ FromReader(other.plain).err = ""
             THEN Result("Users", <<>>, "", AllUsers(FromReader(other.plain)).val,
                         <<filename("users"), filename("C1")>>, cf.opened \o other.opened, <<>>)
             ELSE Result("Users", <<>>, cf.err, <<>>, <<filename("users")>>, cf.opened, <<>>)
        ELSE LET p == FromReader(cf.plain)
             IN  IF p.err # ""
                 THEN Result("Users", <<>>, p.err, <<>>, <<filename("users")>>, cf.opened, <<>>)
                 ELSE LET users == AllUsers(p)
                      IN  Result("Users", <<>>, users.err, users.val,
                                 <<filename("users")>>, cf.opened, <<>>)

\* Directory.Users: the users of the users file.
Users(f) ==
    LET cf == openChunks(f, filename("users"))
    IN  IF cf.err # ""
        THEN Result("Users", <<>>, cf.err, <<>>, <<filename("users")>>, cf.opened, cf.left)
        ELSE LET p == FromReader(cf.plain)
             IN  IF p.err # ""
                 THEN Result("Users", <<>>, p.err, <<>>, <<filename("users")>>, cf.opened,
                                 Release(cf.left, TmpStream(filename("users"))))
                 ELSE LET users == AllUsers(p)
                      IN  Result("Users", <<>>, users.err, users.val,
                                 <<filename("users")>>, cf.opened,
                                 Release(cf.left, TmpStream(filename("users"))))

\* Directory.OpenRAW: the decompressed stream of the file filename names;
\* filepath.Join of the one element is the cleaned file name itself.
OpenRAW(f, fname) ==
    LET cf == openChunks(f, fname)
    IN  Result("OpenRAW", fname, cf.err, cf.plain, <<fname>>, cf.opened, cf.left)

\* Directory.Open: the chunk file with the given name, decoded and indexed.
\* The stream OpenRAW returned is handed to FromReader and closed on no
\* path of Open: the File keeps it, and so does a failed decode.
Open(f, name) ==
    LET raw == OpenRAW(f, filename(name))
    IN  IF raw.err # ""
        THEN Result("Open", <<name>>, raw.err, <<>>, raw.visited, raw.opened, raw.left)
        ELSE LET cf == FromReader(raw.val)
             IN  Result("Open", <<name>>, cf.err, cf.chunks, raw.visited, raw.opened, raw.left)

(***************************************************************************)
(* Part 4.  Writers: Directory.Create and the closewrapper.                *)
(***************************************************************************)

\* The bounds of the directory specification: the writers Create hands out,
\* the chunks written through them, and the entries the directory (and
\* the working directory) holds before the first operation.
MaxWriters == 1

MaxWrites == 2

MaxExternal == 3

\* The Close calls a caller makes on one writer.
MaxCloses == 1

\* The plain bytes (chunks) the compressor holds back before it writes a
\* block to the file.
GzBuf == 2

\* The writer Create returns: a gzip.Writer over the file handle.  off is
\* the handle's offset, hdr whether the GZIP header went out, pend the plain
\* bytes the compressor holds back, plain all the plain bytes written, gzErr
\* the sticky error of the gzip.Writer, log the Close calls on the two layers.
\* chunks and closeRet keep what the caller did: the chunks it wrote, and
\* what its last Close returned ("open" before the first Close).
NewWriter(path) ==
    [path |-> path, off |-> 0, hdr |-> FALSE, pend |-> <<>>, plain |-> <<>>,
     gzClosed |-> FALSE, gzErr |-> "", fClosed |-> FALSE, log |-> <<>>,
     chunks |-> <<>>, closeRet |-> "open"]

\* Directory.Create without the look at what is at the path: the file is
\* opened (and created when missing) whatever it holds.
Create_nocheck(f, name, w) ==
    LET fname == filename(name)
        fi == Stat(f, fname)
    IN  IF fi.err = "" /\ fi.IsDir
        THEN [ret |-> Result("Create", <<name>>, "EISDIR", <<>>, <<>>, <<>>, <<>>),
              fs |-> f, made |-> FALSE]
        ELSE [ret |-> Result("Create", <<name>>, "", <<w>>, <<>>, <<fname>>, <<>>),
              fs |-> IF fi.err # "" THEN [f EXCEPT ![fname] = FileNode(<<>>)] ELSE f,
              made |-> TRUE]

\* Directory.Create: what it returns and the file system it leaves, for a
\* directory that has room for one more writer handle with index w.
Create(f, name, w) ==
    LET fname == filename(name)
        fi == Stat(f, fname)
    IN  IF fi.err = "" /\ fi.IsDir
        THEN [ret |-> Result("Create", <<name>>, "not a file", <<>>, <<>>, <<>>, <<>>),
              fs |-> f, made |-> FALSE]
        ELSE IF fi.err = "" /\ fi.Size > 0
        THEN [ret |-> Result("Create", <<name>>, "file exists and not empty", <<>>, <<>>, <<>>, <<>>),
              fs |-> f, made |-> FALSE]
        ELSE IF Stat(f, Dir).err # "" \/ ~Stat(f, Dir).IsDir
        THEN [ret |-> Result("Create", <<name>>, "ENOENT", <<>>, <<>>, <<>>, <<>>),
              fs |-> f, made |-> FALSE]
        ELSE [ret |-> Result("Create", <<name>>, "", <<w>>, <<>>, <<fname>>, <<>>),
              fs |-> IF fi.err # "" THEN [f EXCEPT ![fname] = FileNode(<<>>)] ELSE f,
              made |-> TRUE]

CallCreate ==
    \E name \in LogicalNames :
        LET r == Create(fs, name, Len(writers) + 1)
        IN  /\ r.made => Len(writers) < MaxWriters
            /\ ret' = r.ret
            /\ fs' = r.fs
            /\ writers' = IF r.made THEN Append(writers, NewWriter(filename(name)))
                          ELSE writers
            /\ UNCHANGED <<chunkVars, genVars, mgrVars>>

\* The file after the handle of writer w wrote bytes to it.
FileWrite(f, w, bytes) ==
    [f EXCEPT ![w.path] = FileNode(WriteAt(f[w.path].data, w.off, bytes))]

\* gzip.Writer.Write of the JSON text of one chunk: the header goes to the
\* file with the first write; the deflated data stays with the compressor
\* until its buffer is full, and then goes to the file as well.
GzWrite(f, w, c) ==
    LET head == IF w.hdr THEN <<>> ELSE <<GZHeader>>
        pend == Append(w.pend, JSONChunk(c))
        flush == Len(pend) >= GzBuf
        out == head \o (IF flush THEN Deflate(pend) ELSE <<>>)
    IN  [fs |-> FileWrite(f, w, out),
         w |-> [w EXCEPT !.hdr = TRUE, !.off = w.off + Len(out),
                         !.pend = IF flush THEN <<>> ELSE pend,
                         !.plain = Append(w.plain, JSONChunk(c))]]

\* gzip.Writer.Close: writes the header if it is still due, what the
\* compressor holds back, and the trailer; a failed write (ok = FALSE) is
\* kept as the writer's error and nothing reaches the file.
GzClose(f, w, ok) ==
    LET head == IF w.hdr THEN <<>> ELSE <<GZHeader>>
        out == head \o Deflate(w.pend) \o <<GZTrailer(w.plain)>>
    IN  IF w.gzErr # "" THEN [fs |-> f, w |-> w, err |-> w.gzErr]
        ELSE IF ~ok
        THEN [fs |-> f, w |-> [w EXCEPT !.gzClosed = TRUE, !.gzErr = "write error"],
              err |-> "write error"]
        ELSE [fs |-> FileWrite(f, w, out),
              w |-> [w EXCEPT !.gzClosed = TRUE, !.hdr = TRUE, !.pend = <<>>,
                              !.off = w.off + Len(out)],
              err |-> ""]

\* closewrapper.Close closing the file handle alone: what the compressor
\* holds back and the trailer never reach the file.
closewrapper_Close_noflush(f, w, gzOk) ==
    [fs |-> f,
     w |-> [w EXCEPT !.gzClosed = TRUE, !.fClosed = TRUE,
                     !.log = w.log \o <<"WriteCloser.Close", "underlying.Close">>],
     err |-> ""]

\* closewrapper.Close with the file handle closed ahead of the compression
\* layer.
closewrapper_Close_filefirst(f, w, gzOk) ==
    LET w1 == [w EXCEPT !.fClosed = TRUE,
                        !.log = Append(w.log, "underlying.Close")]
        gz == GzClose(f, w1, FALSE)
    IN  [fs |-> gz.fs,
         w |-> [gz.w EXCEPT !.log = Append(w1.log, "WriteCloser.Close")],
         err |-> gz.err]

\* closewrapper.Close: closes the compression layer and, when that went
\* well, the file handle.
closewrapper_Close(f, w, gzOk) ==
    LET gz == GzClose(f, w, gzOk)
        w1 == [gz.w EXCEPT !.log = Append(w.log, "WriteCloser.Close")]
    IN  IF gz.err # "" THEN [fs |-> gz.fs, w |-> w1, err |-> gz.err]
        ELSE [fs |-> gz.fs,
              w |-> [w1 EXCEPT !.fClosed = TRUE,
                               !.log = Append(w1.log, "underlying.Close")],
              err |-> ""]

\* The chunks of the directory specification.
DirChunk(t, cid, ch, msgs, users) ==
    [Type |-> t, Timestamp |-> 0, IsThread |-> FALSE, Count |-> Len(msgs) + Len(users),
     Channel |-> ch, ChannelID |-> cid, Parent |-> NoParent,
     Messages |-> msgs, Files |-> <<>>, Users |-> users]

InfoChunk(cid) == DirChunk(CChannelInfo, cid, ChannelRec(cid), <<>>, <<>>)

MessagesChunk(cid, msgs) == DirChunk(CMessages, cid, NoChannel, msgs, <<>>)

UsersChunk(users) == DirChunk(CUsers, "", NoChannel, <<>>, users)

\* The chunks a producer writes.
WriteChunks ==
    { InfoChunk("CA"), MessagesChunk("CA", <<"m1">>), MessagesChunk("CA", <<"m2">>) }

\* The file names callers pass to OpenRAW.
RawNames ==
    { <<"C1" \o ext>>, filename("C1"), filename("channels"),
      Join(Join(Dir, "sub"), "C2" \o ext) }

\* What the directory may hold before the first operation: files other
\* programs and earlier runs left there.
ChunkFile(cs) == FileNode(GZip(EncodeChunks(cs)))

\* A chunk file whose writer wrote the chunks and was not closed.
UnclosedFile(cs) == FileNode(<<GZHeader>> \o Deflate(EncodeChunks(cs)))

OptC1 ==
    { Absent, UnclosedFile(<<InfoChunk("CA")>>), ChunkFile(<<InfoChunk("CA"), MessagesChunk("CA", <<"m0">>)>>),
      ChunkFile(<<UsersChunk(<<"u9">>)>>) }

OptChannels ==
    { Absent, DirNode, FileNode(<<>>),
      FileNode(GZip(<<JSONArray(<<ChannelRec("CX"), ChannelRec("CY")>>)>>)),
      FileNode(GZip(<<JSONJunk>>)) }

OptUsers ==
    { Absent, FileNode(<<>>),
      ChunkFile(<<UsersChunk(<<"u1">>), MessagesChunk("CA", <<"m0">>),
                  UsersChunk(<<"u2", "u3">>)>>) }

OptNotes == { Absent, FileNode(<<JSONJunk>>) }

OptSub == { Absent, DirNode }

OptC2 ==
    { Absent, FileNode(<<>>), FileNode(<<JSONJunk>>),
      ChunkFile(<<MessagesChunk("CB", <<"m0">>)>>),
      ChunkFile(<<InfoChunk("CB"), InfoChunk("CB")>>) }

OptCwdC1 == { Absent, ChunkFile(<<InfoChunk("CC")>>) }

Layout(c1, chs, us, notes, sub, c2, cwd) ==
    [p \in AllPaths |->
        CASE p = Dir -> DirNode
          [] p = filename("C1") -> c1
          [] p = filename("channels") -> chs
          [] p = filename("users") -> us
          [] p = Join(Dir, "notes.txt") -> notes
          [] p = Join(Dir, "sub") -> sub
          [] p = Join(Join(Dir, "sub"), "C2" \o ext) -> c2
          [] OTHER -> cwd]

\* The files of a file system.
Entries(f) == {p \in DOMAIN f : f[p].kind = "file"}

\* The directory was opened (OpenDir) over a folder that other programs and
\* earlier runs filled.
InitScan ==
    /\ \E c1 \in OptC1, chs \in OptChannels, us \in OptUsers, notes \in OptNotes,
          sub \in OptSub, c2 \in OptC2, cwd \in OptCwdC1 :
          /\ c2 # Absent => sub = DirNode
          /\ fs = Layout(c1, chs, us, notes, sub, c2, cwd)
          /\ Cardinality(Entries(fs)) <= MaxExternal
    /\ writers = <<>>
    /\ ret = NoResult
    /\ chunk = MkChunk(CMessages, FALSE, "", NoParent)
    /\ idOut = NoCall
    /\ gen = <<>>
    /\ mgr = <<>>
    /\ ent = <<>>
    /\ wsp = <<>>

\* The directory was created (CreateDir) or opened over a folder that holds
\* at most a folder or a channel snapshot in the place of the channels file.
Init ==
    /\ \E chs \in {Absent, DirNode, FileNode(GZip(<<JSONArray(<<ChannelRec("CX")>>)>>))} :
          fs = Layout(Absent, chs, Absent, Absent, Absent, Absent, Absent)
    /\ writers = <<>>
    /\ ret = NoResult
    /\ chunk = MkChunk(CMessages, FALSE, "", NoParent)
    /\ idOut = NoCall
    /\ gen = <<>>
    /\ mgr = <<>>
    /\ ent = <<>>
    /\ wsp = <<>>

\* The number of chunks written through the writers so far.
Written == Len(Flatten([i \in 1 .. Len(writers) |-> writers[i].plain]))

\* The producer encodes one chunk onto a writer that is not closed.
CallWrite ==
    \E i \in 1 .. Len(writers), c \in WriteChunks :
        LET w == writers[i]
            r == GzWrite(fs, w, c)
        IN  /\ ~w.gzClosed
            /\ Written < MaxWrites
            /\ fs' = r.fs
            /\ writers' = [writers EXCEPT ![i] = [r.w EXCEPT !.chunks = Append(w.chunks, c)]]
            /\ ret' = Result("Write", <<>>, "", <<i>>, <<>>, <<>>, <<>>)
            /\ UNCHANGED <<chunkVars, genVars, mgrVars>>

\* The producer closes a writer whose file handle is still open.
CallClose ==
    \E i \in 1 .. Len(writers), gzOk \in BOOLEAN :
        LET w == writers[i]
            r == closewrapper_Close(fs, w, gzOk)
        IN  /\ ~w.fClosed
            /\ Len(SelectSeq(w.log, LAMBDA e : e = "WriteCloser.Close")) < MaxCloses
            /\ fs' = r.fs
            /\ writers' = [writers EXCEPT
                              ![i] = [r.w EXCEPT !.closeRet = IF r.err = "" THEN "ok" ELSE "err"]]
            /\ ret' = Result("Close", <<>>, r.err, <<i>>, <<>>, <<>>, <<>>)
            /\ UNCHANGED <<chunkVars, genVars, mgrVars>>

CallOpen ==
    \E name \in LogicalNames :
        /\ ret' = Open(fs, name)
        /\ UNCHANGED <<fs, writers>>
        /\ UNCHANGED <<chunkVars, genVars, mgrVars>>

CallOpenRAW ==
    \E fname \in RawNames :
        /\ ret' = OpenRAW(fs, fname)
        /\ UNCHANGED <<fs, writers>>
        /\ UNCHANGED <<chunkVars, genVars, mgrVars>>

CallUsers ==
    /\ ret' = Users(fs)
    /\ UNCHANGED <<fs, writers>>
    /\ UNCHANGED <<chunkVars, genVars, mgrVars>>

CallChannels ==
    /\ ret' = Channels(fs)
    /\ UNCHANGED <<fs, writers>>
    /\ UNCHANGED <<chunkVars, genVars, mgrVars>>

Next ==
    \/ CallCreate
    \/ CallWrite
    \/ CallClose
    \/ CallOpen
    \/ CallOpenRAW

\* The writing specification: callers create, write, close and reopen chunk
\* files of one directory, one call at a time.
Spec == Init /\ [][Next]_vars

NextScan ==
    \/ CallOpen
    \/ CallOpenRAW
    \/ CallUsers
    \/ CallChannels

\* The reading specification: callers open the files of a filled directory
\* and ask it for its users and channels.
SpecScan == InitScan /\ [][NextScan]_vars

(***************************************************************************)
(* Part 5.  The life of the directory: OpenDir, CreateDir, RemoveAll.      *)
(***************************************************************************)

\* A path is the directory dir or lies below it.
Below(dir, p) == Len(p) >= Len(dir) /\ SubSeq(p, 1, Len(dir)) = dir

\* OpenDir: an existing directory is opened; a missing path and a path that
\* is no directory are errors.
OpenDir(f, dir) ==
    LET fi == Stat(f, dir)
    IN  IF fi.err # "" THEN Result("OpenDir", dir, fi.err, <<>>, <<>>, <<>>, <<>>)
        ELSE IF ~fi.IsDir
        THEN Result("OpenDir", dir, "not a directory", <<>>, <<>>, <<>>, <<>>)
        ELSE Result("OpenDir", dir, "", <<dir>>, <<>>, <<>>, <<>>)

\* CreateDir: os.MkdirAll makes the directory when it is missing, leaves an
\* existing directory as it is and fails on a file in its place.
CreateDir(f, dir) ==
    LET fi == Stat(f, dir)
    IN  IF fi.err = "" /\ ~fi.IsDir
        THEN [ret |-> Result("CreateDir", dir, "ENOTDIR", <<>>, <<>>, <<>>, <<>>), fs |-> f]
        ELSE [ret |-> Result("CreateDir", dir, "", <<dir>>, <<>>, <<>>, <<>>),
              fs |-> IF fi.err # "" THEN [f EXCEPT ![dir] = DirNode] ELSE f]

\* RemoveAll with os.Remove in the place of os.RemoveAll: a missing
\* directory is an error.
RemoveAll_strict(f) ==
    IF Stat(f, Dir).err # ""
    THEN [ret |-> Result("RemoveAll", Dir, "ENOENT", <<>>, <<>>, <<>>, <<>>), fs |-> f]
    ELSE [ret |-> Result("RemoveAll", Dir, "", <<>>, <<>>, <<>>, <<>>),
          fs |-> [p \in DOMAIN f |-> IF Below(Dir, p) THEN Absent ELSE f[p]]]

\* Directory.RemoveAll: os.RemoveAll removes the directory and all that is
\* below it, and returns nil when the path does not exist.
RemoveAll(f) ==
    [ret |-> Result("RemoveAll", Dir, "", <<>>, <<>>, <<>>, <<>>),
     fs |-> [p \in DOMAIN f |-> IF Below(Dir, p) THEN Absent ELSE f[p]]]

\* The paths OpenDir is tried on: the directory, and a chunk file of it.
DirNames == {Dir, filename("C1")}

CallOpenDir ==
    \E dir \in DirNames :
        /\ ret' = OpenDir(fs, dir)
        /\ UNCHANGED <<fs, writers>>
        /\ UNCHANGED <<chunkVars, genVars, mgrVars>>

CallCreateDir ==
    LET r == CreateDir(fs, Dir)
    IN  /\ ret' = r.ret
        /\ fs' = r.fs
        /\ UNCHANGED writers
        /\ UNCHANGED <<chunkVars, genVars, mgrVars>>

CallRemoveAll ==
    LET r == RemoveAll(fs)
    IN  /\ ret' = r.ret
        /\ fs' = r.fs
        /\ UNCHANGED writers
        /\ UNCHANGED <<chunkVars, genVars, mgrVars>>

\* A filled folder, as for the reading specification.
InitTree ==
    /\ \E c1 \in OptC1, chs \in OptChannels, us \in OptUsers, notes \in OptNotes,
          sub \in OptSub, c2 \in OptC2, cwd \in OptCwdC1 :
          /\ c2 # Absent => sub = DirNode
          /\ fs = Layout(c1, chs, us, notes, sub, c2, cwd)
          /\ Cardinality(Entries(fs)) <= MaxExternal
    /\ writers = <<>>
    /\ ret = NoResult
    /\ chunk = MkChunk(CMessages, FALSE, "", NoParent)
    /\ idOut = NoCall
    /\ gen = <<>>
    /\ mgr = <<>>
    /\ ent = <<>>
    /\ wsp = <<>>

NextTree ==
    \/ CallOpenDir
    \/ CallCreateDir
    \/ CallRemoveAll
    \/ CallCreate
    \/ CallOpen

\* The life-cycle specification: the directory is opened, removed and made
\* again, and chunk files are created and opened in it.
SpecTree == InitTree /\ [][NextTree]_vars

(***************************************************************************)
(* Part 6.  EntityList.Generator: the background task, its unbuffered      *)
(* channel, the consumer and the context.                                  *)
(***************************************************************************)

\* The longest Include list of the generator specification.
MaxInclude == 3

\* The entities of the Include lists.
Entity(k) == "C" \o ToString(k)

\* The Include list that fromIndex builds of a set of entities: sorted,
\* each entity once.
RECURSIVE IncludeOf(_)
IncludeOf(S) ==
    IF S = {} THEN <<>>
    ELSE LET m == CHOOSE k \in S : \A j \in S : k <= j
         IN  <<Entity(m)>> \o IncludeOf(S \ {m})

\* The state Generator(ctx) returns in: the channel made, the task started
\* and about to take its first entry, the context not cancelled, the
\* consumer not yet receiving.
NewGenerator(include) ==
    [Include |-> include, i |-> 1, pc |-> "select", closes |-> 0,
     cancelled |-> FALSE, consumer |-> "idle", received |-> <<>>]

InitGen ==
    /\ \E S \in SUBSET (1 .. MaxInclude) : gen = NewGenerator(IncludeOf(S))
    /\ mgr = <<>>
    /\ ent = <<>>
    /\ wsp = <<>>
    /\ fs = <<>>
    /\ writers = <<>>
    /\ ret = [op |-> "none"]
    /\ chunk = MkChunk(CMessages, FALSE, "", NoParent)
    /\ idOut = NoCall

\* The send case of the select with the loop variable read after the loop
\* went on: every send delivers the last entry of the list.
GenSend_stale ==
    /\ gen.pc = "select"
    /\ gen.i <= Len(gen.Include)
    /\ gen.consumer = "receiving"
    /\ gen' = [gen EXCEPT !.received = Append(gen.received, gen.Include[Len(gen.Include)]),
                          !.consumer = "idle",
                          !.i = gen.i + 1]
    /\ UNCHANGED <<chunkVars, dirVars, mgrVars, ent>>

\* The case ch <- ent of the select: on the unbuffered channel the send
\* goes through when a receiver waits, whether or not the context is done
\* (select takes any ready case); the loop goes on to the next entry.
GenSend ==
    /\ gen.pc = "select"
    /\ gen.i <= Len(gen.Include)
    /\ gen.consumer = "receiving"
    /\ gen' = [gen EXCEPT !.received = Append(gen.received, gen.Include[gen.i]),
                          !.consumer = "idle",
                          !.i = gen.i + 1]
    /\ UNCHANGED <<chunkVars, dirVars, mgrVars, ent>>

\* The case <-ctx.Done() with the channel closed at the end of the loop
\* only: the return on cancellation leaves the channel open.
GenDone_noclose ==
    /\ gen.pc = "select"
    /\ gen.i <= Len(gen.Include)
    /\ gen.cancelled
    /\ gen' = [gen EXCEPT !.pc = "returned"]
    /\ UNCHANGED <<chunkVars, dirVars, mgrVars, ent>>

\* The case <-ctx.Done() of the select: the task returns and the deferred
\* close(ch) runs.
GenDone ==
    /\ gen.pc = "select"
    /\ gen.i <= Len(gen.Include)
    /\ gen.cancelled
    /\ gen' = [gen EXCEPT !.pc = "returned", !.closes = gen.closes + 1]
    /\ UNCHANGED <<chunkVars, dirVars, mgrVars, ent>>

\* The range loop is through: the task returns and the deferred close(ch)
\* runs.
GenFinish ==
    /\ gen.pc = "select"
    /\ gen.i > Len(gen.Include)
    /\ gen' = [gen EXCEPT !.pc = "returned", !.closes = gen.closes + 1]
    /\ UNCHANGED <<chunkVars, dirVars, mgrVars, ent>>

\* The caller cancels the context.
Cancel ==
    /\ ~gen.cancelled
    /\ gen' = [gen EXCEPT !.cancelled = TRUE]
    /\ UNCHANGED <<chunkVars, dirVars, mgrVars, ent>>

\* The consumer starts to receive from the channel and waits.
ConsReceive ==
    /\ gen.consumer = "idle"
    /\ gen' = [gen EXCEPT !.consumer = "receiving"]
    /\ UNCHANGED <<chunkVars, dirVars, mgrVars, ent>>

\* The consumer's receive returns on the closed channel.
ConsSeeClosed ==
    /\ gen.consumer = "receiving"
    /\ gen.closes > 0
    /\ gen' = [gen EXCEPT !.consumer = "drained"]
    /\ UNCHANGED <<chunkVars, dirVars, mgrVars, ent>>

\* The consumer stops receiving for good.
ConsStop ==
    /\ gen.consumer = "idle"
    /\ gen' = [gen EXCEPT !.consumer = "stopped"]
    /\ UNCHANGED <<chunkVars, dirVars, mgrVars, ent>>

NextGen ==
    \/ GenSend
    \/ GenDone
    \/ GenFinish
    \/ Cancel
    \/ ConsReceive
    \/ ConsSeeClosed
    \/ ConsStop

\* The generator specification: the task, the consumer and the caller's
\* cancellation in any interleaving.
SpecGen == InitGen /\ [][NextGen]_vars

\* The same with a scheduler that lets the task take a step of its select
\* that stays possible.
SpecGenFair ==
    /\ InitGen /\ [][NextGen]_vars
    /\ WF_vars(GenSend) /\ WF_vars(GenDone) /\ WF_vars(GenFinish)

(***************************************************************************)
(* Part 7.  The cache Manager's options.  A file name is the sequence of   *)
(* its characters.                                                         *)
(***************************************************************************)

\* The longest file name handed to an option.
MaxName == 2

\* The characters of the file names: a letter, the dot and the separator.
NameChars == {"u", ".", "/"}

FileNames == UNION {[1 .. n -> NameChars] : n \in 0 .. MaxName}

\* The extension the options ask for, and the manager's default names.
cacheExt == <<".", "c", "a", "c", "h", "e">>

defUserFile == <<"u", "s", "e", "r", "s">> \o cacheExt

defChannelFile == <<"c", "h", "a", "n", "n", "e", "l", "s">> \o cacheExt

\* filepath.Ext: the suffix that starts at the last dot of the last element
\* of the path; empty when that element has no dot.
RECURSIVE ExtFrom(_, _)
ExtFrom(path, i) ==
    IF i < 1 \/ path[i] = "/" THEN <<>>
    ELSE IF path[i] = "." THEN SubSeq(path, i, Len(path))
    ELSE ExtFrom(path, i - 1)

Ext(path) == ExtFrom(path, Len(path))

\* maybeAppendExt: the ext declared in the if statement hides the
\* parameter, so what is appended is the file name's own extension, which
\* is empty or a dot there.
maybeAppendExt(fname, e) ==
    IF e = <<>> THEN fname
    ELSE LET ext1 == Ext(fname)
         IN  IF ext1 = <<>> \/ ext1 = <<".">> THEN fname \o ext1
             ELSE fname

\* NewManager before its options are applied.
NewManager ==
    [userFile |-> defUserFile, channelFile |-> defChannelFile,
     opt |-> "none", arg |-> <<>>]

\* The option WithUserCacheBase(fname) applied to the manager m.
WithUserCacheBase(m, fname) ==
    IF fname = <<>> THEN [m EXCEPT !.opt = "WithUserCacheBase", !.arg = fname]
    ELSE [m EXCEPT !.userFile = maybeAppendExt(fname, cacheExt),
                   !.opt = "WithUserCacheBase", !.arg = fname]

\* The option WithChannelCacheBase(fname) applied to the manager m.
WithChannelCacheBase(m, fname) ==
    IF fname = <<>> THEN [m EXCEPT !.opt = "WithChannelCacheBase", !.arg = fname]
    ELSE [m EXCEPT !.channelFile = maybeAppendExt(fname, cacheExt),
                   !.opt = "WithChannelCacheBase", !.arg = fname]

InitMgr ==
    /\ mgr = NewManager
    /\ ent = <<>>
    /\ wsp = <<>>
    /\ gen = <<>>
    /\ fs = <<>>
    /\ writers = <<>>
    /\ ret = [op |-> "none"]
    /\ chunk = MkChunk(CMessages, FALSE, "", NoParent)
    /\ idOut = NoCall

\* NewManager applies the next of its options.
ApplyUserCacheBase ==
    /\ \E fname \in FileNames : mgr' = WithUserCacheBase(mgr, fname)
    /\ UNCHANGED <<chunkVars, dirVars, genVars, wsp>>

ApplyChannelCacheBase ==
    /\ \E fname \in FileNames : mgr' = WithChannelCacheBase(mgr, fname)
    /\ UNCHANGED <<chunkVars, dirVars, genVars, wsp>>

NextMgr == ApplyUserCacheBase \/ ApplyChannelCacheBase

\* The manager specification: NewManager applies any options in any order.
SpecMgr == InitMgr /\ [][NextMgr]_vars

(***************************************************************************)
(* Part 8.  Entity lists: NewEntityList and readEntityList.  An entry is   *)
(* the sequence of its parts: the prefix "^" or "@" when it has one, then  *)
(* the link; a line of a file may have blanks (" ") around its entry.      *)
(***************************************************************************)

\* The bounds of the entity list specification: the entities, the entries
\* of a list, the lines of an input, and the limit handed to readEntityList.
MaxEntity == 2

MaxList == 3

MaxLines == 3

MaxLimit == 2

\* The limit LoadEntityList reads an "@file" with.
maxFileEntries == 65536

\* ParseLink and SlackLink.String: an identifier is its own canonical form
\* and a URL has that of the identifier it ends with; anything else is no
\* link.
ParseLink(e) ==
    IF \E k \in 1 .. MaxEntity : e = <<Entity(k)>> THEN [err |-> "", s |-> e[1]]
    ELSE IF \E k \in 1 .. MaxEntity : e = <<"https://", Entity(k)>>
    THEN [err |-> "", s |-> e[2]]
    ELSE [err |-> "unsupported link", s |-> ""]

\* strings.TrimSpace: the line without the blanks at its ends.
RECURSIVE TrimSpace(_)
TrimSpace(line) ==
    IF line = <<>> THEN line
    ELSE IF Head(line) = " " THEN TrimSpace(Tail(line))
    ELSE IF line[Len(line)] = " " THEN TrimSpace(SubSeq(line, 1, Len(line) - 1))
    ELSE line

RECURSIVE NewEntityList(_, _)

\* readEntityList over the input in (its lines, and whether the last one
\* ends with a newline): ReadString hands out each line, the last one
\* together with io.EOF when no newline ends it, else io.EOF with an empty
\* line after it.
readEntityList(in, maxEntries, files) ==
    LET n == Len(in.lines)
        reads == IF n = 0 THEN <<[line |-> <<>>, eof |-> TRUE]>>
                 ELSE [k \in 1 .. n - 1 |-> [line |-> in.lines[k], eof |-> FALSE]] \o
                      (IF in.nl
                       THEN <<[line |-> in.lines[n], eof |-> FALSE],
                              [line |-> <<>>, eof |-> TRUE]>>
                       ELSE <<[line |-> in.lines[n], eof |-> TRUE]>>)
        RECURSIVE loop(_, _, _)
        loop(k, total, elements) ==
            IF total >= maxEntries
            THEN [err |-> "maximum file size exceeded", Include |-> <<>>, Exclude |-> <<>>]
            ELSE LET exit == reads[k].eof
                     line == TrimSpace(reads[k].line)
                 IN  IF line = <<>> \/ line[1] = "#"
                     THEN IF exit THEN NewEntityList(elements, files)
                          ELSE loop(k + 1, total, elements)
                     ELSE IF exit THEN NewEntityList(Append(elements, line), files)
                          ELSE loop(k + 1, total + 1, Append(elements, line))
    IN  loop(1, 0, <<>>)

\* buildEntryIndex with each entry deciding for its entity as it comes: the
\* last mention of an entity wins, not the exclusion.
buildEntryIndex_inorder(links, files) ==
    LET ok(i) == /\ links[i] # <<>>
                 /\ links[i][1] # "@"
                 /\ (links[i][1] = "^" => Tail(links[i]) # <<>>)
        link(i) == ParseLink(IF links[i][1] = "^" THEN Tail(links[i]) ELSE links[i])
        used == {i \in 1 .. Len(links) : ok(i)}
        last(s) == CHOOSE i \in used : link(i).s = s /\ \A j \in used : link(j).s = s => j <= i
    IN  IF \E i \in used : link(i).err # ""
        THEN [err |-> "unsupported link", index |-> <<>>]
        ELSE [err |-> "",
              index |-> [s \in {link(i).s : i \in used} |-> links[last(s)][1] # "^"]]

\* buildEntryIndex: the index of the entities of the list, TRUE for the
\* included ones.  Plain entries are set to TRUE as they come; the excluded
\* ones are kept aside, the "@file" entries are loaded after the loop (what
\* they include is set to TRUE, what they exclude is kept aside), and last
\* of all everything kept aside is set to FALSE.
buildEntryIndex(links, files) ==
    LET HasExcludePrefix(e) == e[1] = "^"
        hasFilePrefix(e) == e[1] = "@"
        used == {i \in 1 .. Len(links) : links[i] # <<>> /\ Tail(links[i]) # <<>>}
                \cup {i \in 1 .. Len(links) :
                        /\ links[i] # <<>>
                        /\ ~HasExcludePrefix(links[i])
                        /\ ~hasFilePrefix(links[i])}
        X == {i \in used : HasExcludePrefix(links[i])}
        F == {i \in used : ~HasExcludePrefix(links[i]) /\ hasFilePrefix(links[i])}
        P == used \ (X \cup F)
        link(i) == ParseLink(IF i \in X THEN Tail(links[i]) ELSE links[i])
        LoadEntityList(file) ==
            IF file \notin DOMAIN files \/ files[file] = <<>>
            THEN [err |-> "ENOENT", Include |-> <<>>, Exclude |-> <<>>]
            ELSE readEntityList(files[file], maxFileEntries, files)
        el(i) == LoadEntityList(links[i][2])
        Range(s) == {s[j] : j \in 1 .. Len(s)}
        included == {link(i).s : i \in P} \cup UNION {Range(el(i).Include) : i \in F}
        excluded == {link(i).s : i \in X} \cup UNION {Range(el(i).Exclude) : i \in F}
    IN  IF \E i \in P \cup X : link(i).err # ""
        THEN [err |-> "unsupported link", index |-> <<>>]
        ELSE IF \E i \in F : el(i).err # ""
        THEN [err |-> (el(CHOOSE i \in F : el(i).err # "" /\
                             \A j \in F : el(j).err # "" => i <= j)).err,
              index |-> <<>>]
        ELSE [err |-> "", index |-> [s \in included \cup excluded |-> s \notin excluded]]

\* EntityList.fromIndex: the included and the excluded entities of the
\* index, each list sorted.
fromIndex(index) ==
    LET Num(s) == CHOOSE k \in 1 .. MaxEntity : Entity(k) = s
    IN  [err |-> "",
         Include |-> IncludeOf({Num(s) : s \in {t \in DOMAIN index : index[t]}}),
         Exclude |-> IncludeOf({Num(s) : s \in {t \in DOMAIN index : ~index[t]}})]

NewEntityList(entities, files) ==
    LET r == buildEntryIndex(entities, files)
    IN  IF r.err # "" THEN [err |-> r.err, Include |-> <<>>, Exclude |-> <<>>]
        ELSE fromIndex(r.index)

\* The entries of the lists handed to NewEntityList.
EntEntries ==
    {<<>>, <<"^">>, <<"@">>, <<"?">>, <<"@", "f1">>}
    \cup {<<Entity(k)>> : k \in 1 .. MaxEntity}
    \cup {<<"https://", Entity(k)>> : k \in 1 .. MaxEntity}
    \cup {<<"^", Entity(k)>> : k \in 1 .. MaxEntity}

\* The lines of the inputs handed to readEntityList.
EntLines ==
    {<<>>, <<" ">>, <<"#", "c">>, <<Entity(1)>>, <<" ", Entity(2), " ">>,
     <<"^", Entity(1)>>}

\* What the file f1 holds, if it is there.
EntFiles ==
    {[f \in {"f1"} |-> c] :
        c \in {<<>>,
               [lines |-> <<<<Entity(1)>>, <<"^", Entity(2)>>>>, nl |-> TRUE],
               [lines |-> <<<<"^", Entity(1)>>, <<"#", "c">>, <<Entity(2)>>>>, nl |-> FALSE]}}

\* A list of entries is about to be handed to NewEntityList, or an input
\* and a limit to readEntityList.
InitEnt ==
    /\ \E files \in EntFiles :
          \/ \E n \in 0 .. MaxList : \E entities \in [1 .. n -> EntEntries] :
                ent = [op |-> "none", call |-> "NewEntityList", files |-> files,
                       in |-> entities, max |-> 0,
                       out |-> [err |-> "", Include |-> <<>>, Exclude |-> <<>>]]
          \/ \E n \in 0 .. MaxLines, nl \in BOOLEAN, maxEntries \in 0 .. MaxLimit :
                \E lines \in [1 .. n -> EntLines] :
                   /\ n = 0 => ~nl
                   /\ ent = [op |-> "none", call |-> "readEntityList", files |-> files,
                             in |-> [lines |-> lines, nl |-> nl], max |-> maxEntries,
                             out |-> [err |-> "", Include |-> <<>>, Exclude |-> <<>>]]
    /\ gen = <<>>
    /\ mgr = <<>>
    /\ wsp = <<>>
    /\ fs = <<>>
    /\ writers = <<>>
    /\ ret = [op |-> "none"]
    /\ chunk = MkChunk(CMessages, FALSE, "", NoParent)
    /\ idOut = NoCall

CallNewEntityList ==
    /\ ent.op = "none"
    /\ ent.call = "NewEntityList"
    /\ ent' = [ent EXCEPT !.op = "NewEntityList",
                          !.out = NewEntityList(ent.in, ent.files)]
    /\ UNCHANGED <<chunkVars, dirVars, mgrVars, gen>>

CallReadEntityList ==
    /\ ent.op = "none"
    /\ ent.call = "readEntityList"
    /\ ent' = [ent EXCEPT !.op = "readEntityList",
                          !.out = readEntityList(ent.in, ent.max, ent.files)]
    /\ UNCHANGED <<chunkVars, dirVars, mgrVars, gen>>

NextEnt == CallNewEntityList \/ CallReadEntityList

\* The entity list specification: lists are built of any entries and read
\* from any input.
SpecEnt == InitEnt /\ [][NextEnt]_vars

(***************************************************************************)
(* Part 9.  The cache Manager's workspaces.  The directory holds the       *)
(* workspace files and workspace.txt, the saved selection; a name is the   *)
(* sequence of its characters.                                             *)
(***************************************************************************)

\* The workspace file extension, the default credentials file and the name
\* shown for it.
wspExt == <<".", "b", "i", "n">>

defCredsFile == <<"p", "r", "o", "v", "i", "d", "e", "r">> \o wspExt

defName == <<"d", "e", "f", "a", "u", "l", "t">>

\* Manager.filename: the file of the workspace name.
Manager_filename(name) ==
    IF name = defName \/ name = <<>> THEN defCredsFile ELSE name \o wspExt

\* Manager.List over the files of the directory: listFiles fails when no
\* file ends in the workspace extension; the name of a file is "default"
\* for the default credentials file, else the file name without its
\* extension (wspName).
List(files) ==
    LET listFiles == {f \in files : Len(f) >= Len(wspExt) /\ Ext(f) = wspExt}
        wspName(file) ==
            IF file = defCredsFile THEN defName
            ELSE SubSeq(file, 1, Len(file) - Len(Ext(file)))
    IN  IF listFiles = {} THEN [err |-> "ErrNoWorkspaces", names |-> {}]
        ELSE [err |-> "", names |-> {wspName(f) : f \in listFiles}]

\* Manager.Exists: the name is in the list; false when List fails.
Exists(files, name) == List(files).err = "" /\ name \in List(files).names

\* Manager.readWsp over workspace.txt holding text and a newline: Fscanln
\* skips the blanks, reads up to the next blank, and fails when it read
\* nothing or when anything but blanks is left on the line; readWsp then
\* answers the default credentials file.
readWsp(text) ==
    LET RECURSIVE skip(_)
        skip(s) == IF s # <<>> /\ Head(s) = " " THEN skip(Tail(s)) ELSE s
        RECURSIVE token(_)
        token(s) == IF s = <<>> \/ Head(s) = " " THEN <<>>
                    ELSE <<Head(s)>> \o token(Tail(s))
        line == skip(text)
        current == token(line)
        rest == SubSeq(line, Len(current) + 1, Len(line))
    IN  IF current = <<>> \/ skip(rest) # <<>> THEN defCredsFile
        ELSE TrimSpace(current)

\* Manager.Select: an existing workspace is written to workspace.txt
\* (writeWsp: the name and a newline).
Select(w, name) ==
    IF ~Exists(w.files, name)
    THEN [w EXCEPT !.op = "Select", !.arg = name, !.err = "no such workspace",
                   !.val = <<>>]
    ELSE [w EXCEPT !.op = "Select", !.arg = name, !.err = "", !.val = <<>>,
                   !.sel = [exists |-> TRUE, text |-> name], !.last = <<name>>]

\* Manager.Current: the saved selection when it is in the list, else
\* selectDefault, which selects the default workspace when it exists.
Current(w) ==
    LET workspaces == List(w.files)
        selectDefault ==
            IF ~Exists(w.files, defName)
            THEN [w EXCEPT !.op = "Current", !.arg = <<>>, !.err = "ErrNoDefault",
                           !.val = <<>>]
            ELSE [Select(w, defName) EXCEPT !.op = "Current", !.arg = <<>>,
                                            !.val = defName]
        wf == readWsp(w.sel.text)
    IN  IF workspaces.err # ""
        THEN [w EXCEPT !.op = "Current", !.arg = <<>>, !.err = workspaces.err,
                       !.val = <<>>]
        ELSE IF ~w.sel.exists THEN selectDefault
        ELSE IF wf \notin workspaces.names THEN selectDefault
        ELSE [w EXCEPT !.op = "Current", !.arg = <<>>, !.err = "", !.val = wf]

\* Manager.Delete: the file of an existing workspace is removed.
Delete(w, name) ==
    IF ~Exists(w.files, name)
    THEN [w EXCEPT !.op = "Delete", !.arg = name, !.err = "no such workspace",
                   !.val = <<>>]
    ELSE [w EXCEPT !.op = "Delete", !.arg = name, !.err = "", !.val = <<>>,
                   !.files = @ \ {Manager_filename(name)},
                   !.last = IF @ = <<name>> THEN <<>> ELSE @]

\* Manager.Auth: the credentials of the workspace are saved in its file.
Auth(w, name) ==
    [w EXCEPT !.op = "Auth", !.arg = name, !.err = "", !.val = <<>>,
              !.files = @ \cup {Manager_filename(name)}]

\* The workspace names handed to the manager: the default one, the empty
\* one, a plain one, one with a blank, and one that reads as the default
\* credentials file.
WspNames == {defName, <<>>, <<"w">>, <<"a", " ", "b">>, defCredsFile}

\* A new directory: no workspace file, no saved selection, and no Select
\* has succeeded; last holds the name the last Select that succeeded was
\* given, until that workspace is deleted.
InitWsp ==
    /\ wsp = [files |-> {}, sel |-> [exists |-> FALSE, text |-> <<>>],
              last |-> <<>>, op |-> "none", arg |-> <<>>, err |-> "", val |-> <<>>]
    /\ mgr = <<>>
    /\ ent = <<>>
    /\ gen = <<>>
    /\ fs = <<>>
    /\ writers = <<>>
    /\ ret = [op |-> "none"]
    /\ chunk = MkChunk(CMessages, FALSE, "", NoParent)
    /\ idOut = NoCall

CallAuth ==
    /\ \E name \in WspNames : wsp' = Auth(wsp, name)
    /\ UNCHANGED <<chunkVars, dirVars, genVars, mgr>>

CallSelect ==
    /\ \E name \in WspNames : wsp' = Select(wsp, name)
    /\ UNCHANGED <<chunkVars, dirVars, genVars, mgr>>

CallDelete ==
    /\ \E name \in WspNames : wsp' = Delete(wsp, name)
    /\ UNCHANGED <<chunkVars, dirVars, genVars, mgr>>

CallCurrent ==
    /\ wsp' = Current(wsp)
    /\ UNCHANGED <<chunkVars, dirVars, genVars, mgr>>

NextWsp == CallAuth \/ CallSelect \/ CallDelete \/ CallCurrent

\* The workspace specification: any calls of the manager in any order.
SpecWsp == InitWsp /\ [][NextWsp]_vars

(***************************************************************************)
(* Claims.                                                                 *)
(***************************************************************************)

\* The rows of the identity table that read the parent have one.
HasAnchor(c) == c.Type \in {CThreadMessages, CFiles} => ~c.Parent.nil

\* The identity table of the data model, row by row.
TableIdentity(t, thr, cid, par) ==
    IF t = CMessages THEN cid
    ELSE IF t = CThreadMessages THEN "t" \o cid \o ":" \o par.ThreadTimestamp
    ELSE IF t = CFiles THEN "f" \o cid \o ":" \o par.Timestamp
    ELSE IF t = CChannelInfo /\ ~thr THEN "ci" \o cid
    ELSE IF t = CChannelInfo /\ thr THEN "tci" \o cid
    ELSE IF t = CUsers THEN userChunkID
    ELSE IF t = CChannels THEN channelChunkID
    ELSE "<unknown:ChunkType(" \o ToString(t) \o ")>"

\* C1: the identity a chunk returned is the one the table gives for the
\* chunk's type, thread flag, channel ID and parent, whatever its capture
\* time, count and payload are at the time and have become since; every case
\* of TestChunk_ID gets the identity it wants; and a call of ID() leaves
\* every field of the chunk as it was.
C1_IdentityTable ==
    /\ [](/\ (idOut.called /\ HasAnchor(chunk)) =>
                idOut.id = TableIdentity(chunk.Type, chunk.IsThread,
                                         chunk.ChannelID, chunk.Parent)
          /\ \A i \in DOMAIN TestChunk_ID_tests :
                TestChunk_ID_got(i) = TestChunk_ID_tests[i].want)
    /\ [][idOut' # idOut => chunk' = chunk]_vars

\* C1 witness: the identity of a thread chunk with a parent was taken, and
\* the informational fields have changed since.
C1_Witness ==
    /\ idOut.called
    /\ idOut.of # chunk
    /\ chunk.Type = CThreadMessages
    /\ ~chunk.Parent.nil
    /\ chunk.Messages # <<>>
    /\ idOut.id = "tC123:1234"

\* C2: identity derivation is total: ID() can be called on every chunk, of
\* a valid or an out-of-range type, and returns a string; a ThreadMessages
\* or Files chunk without a parent gets "t"+channelID+":" or
\* "f"+channelID+":"; an out-of-range type N gets "<unknown:ChunkType(N)>".
C2_IdentityTotal ==
    /\ ENABLED CallID
    /\ idOut.called =>
          /\ Len(idOut.id) >= 0
          /\ (chunk.Type = CThreadMessages /\ chunk.Parent.nil) =>
                idOut.id = "t" \o chunk.ChannelID \o ":"
          /\ (chunk.Type = CFiles /\ chunk.Parent.nil) =>
                idOut.id = "f" \o chunk.ChannelID \o ":"
          /\ chunk.Type \notin KnownTypes =>
                idOut.id = "<unknown:ChunkType(" \o ToString(chunk.Type) \o ")>"

\* C2 witness: the identity of a Files chunk without a parent was taken.
C2_Witness ==
    /\ idOut.called
    /\ chunk.Type = CFiles
    /\ chunk.Parent.nil
    /\ chunk.ChannelID = "C123"
    /\ idOut.id = "fC123:"

\* The writers Create returned for the file at path.
WritersOf(path) == {i \in 1 .. Len(writers) : writers[i].path = path}

\* C3: a Create(name) that finds name.json.gz existing and non-empty, or
\* finds a directory there, returns an error and leaves the file system
\* (existence and content of every file) and the writers as they were.
C3_CreateKeepsFile ==
    [][\A name \in LogicalNames :
          LET fi == Stat(fs, filename(name))
          IN  (/\ ret'.op = "Create"
               /\ ret'.arg = <<name>>
               /\ fi.err = ""
               /\ (fi.IsDir \/ fi.Size > 0))
              => (ret'.err # "" /\ ret'.val = <<>> /\ fs' = fs /\ writers' = writers)]_vars

\* C3 witness: a second Create(name) failed on the non-empty file that the
\* writer of the first Create(name) wrote and closed.
C3_Witness ==
    /\ ret.op = "Create"
    /\ ret.err = "file exists and not empty"
    /\ \E i \in WritersOf(filename(ret.arg[1])) :
          /\ writers[i].closeRet = "ok"
          /\ Len(writers[i].chunks) = 2
          /\ fs[writers[i].path] = FileNode(GZip(EncodeChunks(writers[i].chunks)))

\* The channels file is there as a regular file.
HasChannelsFile == fs[filename("channels")].kind = "file"

\* The channel records a flat snapshot decodes to: the array that is the
\* first JSON value of the decompressed data, when there is one.
SnapshotDecodes(data) ==
    /\ data # <<>>
    /\ UnGZIP(data).err = ""
    /\ UnGZIP(data).plain # <<>>
    /\ UnGZIP(data).plain[1].k = "array"

\* C4: with a regular channels.json.gz in the directory root, Channels()
\* looks at that file alone and returns the channel records the snapshot
\* decodes to (an error and no channels when it does not decode), whatever
\* chunk files with ChannelInfo chunks the directory holds.
C4_SnapshotFirst ==
    (ret.op = "Channels" /\ HasChannelsFile) =>
        LET data == fs[filename("channels")].data
        IN  /\ ret.visited = <<filename("channels")>>
            /\ \A i \in 1 .. Len(ret.opened) : ret.opened[i] = filename("channels")
            /\ IF SnapshotDecodes(data)
               THEN ret.err = "" /\ ret.val = UnGZIP(data).plain[1].v
               ELSE ret.err # "" /\ ret.val = <<>>

\* C4 witness: Channels() returned the two records of the snapshot while a
\* chunk file with a ChannelInfo chunk was in the directory too.
C4_Witness ==
    /\ ret.op = "Channels"
    /\ HasChannelsFile
    /\ ret.err = ""
    /\ ret.val = <<ChannelRec("CX"), ChannelRec("CY")>>
    /\ fs[filename("C1")] = ChunkFile(<<InfoChunk("CA"), MessagesChunk("CA", <<"m0">>)>>)

\* The non-directory files below the directory whose name ends in .json.gz,
\* in walk order.
ChunkFilesInWalkOrder ==
    SelectSeq(WalkDir(fs, Dir), LAMBDA p : HasSuffixExt(p) /\ fs[p].kind = "file")

\* The chunks of a chunk file that is non-empty, decompresses and decodes.
Decodes(data) ==
    /\ data # <<>>
    /\ UnGZIP(data).err = ""
    /\ \A i \in 1 .. Len(UnGZIP(data).plain) : UnGZIP(data).plain[i].k = "chunk"

ChunksIn(data) ==
    LET plain == UnGZIP(data).plain IN [i \in 1 .. Len(plain) |-> plain[i].v[1]]

\* The channel records of the ChannelInfo chunks of a decodable chunk file.
InfoChannelsIn(data) ==
    LET infos == SelectSeq(ChunksIn(data), LAMBDA c : c.Type = CChannelInfo)
    IN  [i \in 1 .. Len(infos) |-> infos[i].Channel]

\* C5: without a regular channels.json.gz, and with every chunk file of the
\* tree decodable, Channels() visits every non-directory .json.gz file of
\* the tree in walk order and returns, without an error, the concatenation
\* of the channel records of their ChannelInfo chunks, duplicates included;
\* a file without ChannelInfo chunks adds nothing.
C5_FallbackScan ==
    (/\ ret.op = "Channels"
     /\ ~HasChannelsFile
     /\ \A i \in 1 .. Len(ChunkFilesInWalkOrder) : Decodes(fs[ChunkFilesInWalkOrder[i]].data))
    => /\ ret.err = ""
       /\ ret.visited = ChunkFilesInWalkOrder
       /\ ret.val = Flatten([i \in 1 .. Len(ChunkFilesInWalkOrder) |->
                               InfoChannelsIn(fs[ChunkFilesInWalkOrder[i]].data)])

\* C5 witness: the scan passed a chunk file without ChannelInfo chunks in
\* the root and collected the two (equal) records of a nested file.
C5_Witness ==
    /\ ret.op = "Channels"
    /\ ~HasChannelsFile
    /\ fs[filename("C1")] = ChunkFile(<<UsersChunk(<<"u9">>)>>)
    /\ ret.visited = <<filename("C1"), Join(Join(Dir, "sub"), "C2" \o ext)>>
    /\ ret.val = <<ChannelRec("CB"), ChannelRec("CB")>>
    /\ ret.err = ""

\* The position in the walk of the first chunk file that is empty or does
\* not decompress or decode; 0 when there is none.
FirstBad ==
    LET fl == ChunkFilesInWalkOrder
        bad == {i \in 1 .. Len(fl) : ~Decodes(fs[fl[i]].data)}
    IN  IF bad = {} THEN 0 ELSE CHOOSE i \in bad : \A j \in bad : i <= j

\* C6: in the fallback scan, the first chunk file that is empty or does not
\* decompress or decode ends the walk: Channels() returns an error and no
\* channels, and no file after that one is visited or opened; and Channels()
\* never returns channels together with an error.
C6_ScanAborts ==
    /\ ret.op = "Channels" => (ret.err # "" => ret.val = <<>>)
    /\ (ret.op = "Channels" /\ ~HasChannelsFile /\ FirstBad > 0) =>
          /\ ret.err # ""
          /\ ret.err # errNoChannelInfo
          /\ ret.val = <<>>
          /\ ret.visited = SubSeq(ChunkFilesInWalkOrder, 1, FirstBad)
          /\ \A i \in 1 .. Len(ret.opened) :
                \E j \in 1 .. FirstBad : ret.opened[i] = ChunkFilesInWalkOrder[j]

\* C6 witness: the scan read a file with a ChannelInfo chunk, failed on the
\* second file, and left a third file unvisited.
C6_Witness ==
    /\ ret.op = "Channels"
    /\ ~HasChannelsFile
    /\ FirstBad = 2
    /\ Len(ChunkFilesInWalkOrder) = 3
    /\ InfoChannelsIn(fs[ChunkFilesInWalkOrder[1]].data) # <<>>
    /\ ret.err # ""
    /\ Len(ret.visited) = 2

\* The three ways an open fails before any file is opened.
OpenFailures == {"ENOENT", "chunk file is a directory", "chunk file is empty"}

\* The file an Open or OpenRAW call names.
TargetOf(r) == IF r.op = "Open" THEN filename(r.arg[1]) ELSE r.arg

\* C7: an Open(name) or OpenRAW(filename) whose file is missing, a
\* directory or zero-length fails, each with an error of its own (an empty
\* file is reported as empty, not as absent), returns no reader and opens
\* nothing; and no Open or OpenRAW call changes the file system or a writer.
C7_OpenFailures ==
    /\ [](ret.op \in {"Open", "OpenRAW"} =>
            LET fi == Stat(fs, TargetOf(ret))
            IN  /\ fi.err # "" => ret.err = "ENOENT"
                /\ (fi.err = "" /\ fi.IsDir) => ret.err = "chunk file is a directory"
                /\ (fi.err = "" /\ ~fi.IsDir /\ fi.Size = 0) => ret.err = "chunk file is empty"
                /\ ret.err \in OpenFailures => (ret.val = <<>> /\ ret.opened = <<>>)
                /\ Cardinality(OpenFailures) = 3)
    /\ [][ret'.op \in {"Open", "OpenRAW"} => (fs' = fs /\ writers' = writers)]_vars

\* C7 witness: OpenRAW reported the zero-length file a Create left as empty.
C7_Witness ==
    /\ ret.op = "OpenRAW"
    /\ ret.arg = filename("C1")
    /\ fs[filename("C1")] = FileNode(<<>>)
    /\ WritersOf(filename("C1")) # {}
    /\ ret.err = "chunk file is empty"

\* C8: Users() looks at users.json.gz alone: absent, empty or a directory,
\* it returns an error and no users, whatever the other chunk files hold;
\* decodable, it returns the users of the file's Users chunks, concatenated
\* in file order.
C8_UsersFileOnly ==
    ret.op = "Users" =>
        LET fi == Stat(fs, filename("users"))
            data == fs[filename("users")].data
        IN  /\ ret.visited = <<filename("users")>>
            /\ \A i \in 1 .. Len(ret.opened) : ret.opened[i] = filename("users")
            /\ (fi.err # "" \/ fi.IsDir \/ fi.Size = 0) => (ret.err # "" /\ ret.val = <<>>)
            /\ (fi.err = "" /\ ~fi.IsDir /\ Decodes(data)) =>
                  /\ ret.err = ""
                  /\ ret.val =
                        LET us == SelectSeq(ChunksIn(data), LAMBDA c : c.Type = CUsers)
                        IN  Flatten([i \in 1 .. Len(us) |-> us[i].Users])

\* C8 witness: Users() failed for want of the users file while another chunk
\* file of the directory held a Users chunk.
C8_Witness ==
    /\ ret.op = "Users"
    /\ fs[filename("users")].kind = "none"
    /\ fs[filename("C1")] = ChunkFile(<<UsersChunk(<<"u9">>)>>)
    /\ ret.err = "ENOENT"
    /\ ret.val = <<>>

\* The chunks of a File that have the identity id, in the order of its index.
Retrieve(cs, id) == [k \in 1 .. Len(IndexOf(cs)[id]) |-> cs[IndexOf(cs)[id][k]]]

\* C9: when the one writer Create(name) returned was closed without an
\* error, Open(name) returns exactly the chunks written through it, in the
\* order written, and the chunks of each identity are retrieved in the order
\* they were appended.
C9_RoundTrip ==
    \A name \in LogicalNames :
        (/\ ret.op = "Open"
         /\ ret.arg = <<name>>
         /\ Cardinality(WritersOf(filename(name))) = 1
         /\ \A i \in WritersOf(filename(name)) : writers[i].closeRet = "ok")
        => \A i \in WritersOf(filename(name)) :
              /\ ret.err = ""
              /\ ret.val = writers[i].chunks
              /\ \A id \in DOMAIN IndexOf(ret.val) :
                    Retrieve(ret.val, id) =
                        SelectSeq(writers[i].chunks, LAMBDA c : ID(c) = id)

\* C9 witness: Open returned two different chunks of one identity, in the
\* order they were written.
C9_Witness ==
    /\ ret.op = "Open"
    /\ ret.err = ""
    /\ ret.val = <<MessagesChunk("CA", <<"m2">>), MessagesChunk("CA", <<"m1">>)>>
    /\ \E i \in WritersOf(filename(ret.arg[1])) :
          writers[i].closeRet = "ok" /\ writers[i].chunks = ret.val

\* C10: on every writer the file handle is closed only after the Close of
\* the compression layer, and only when that Close wrote the trailer; after
\* a Close that returned no error both layers are closed and the file ends
\* with the trailer.
C10_CloseOrder ==
    /\ \A i \in 1 .. Len(writers) :
          LET w == writers[i]
          IN  /\ \A k \in 1 .. Len(w.log) :
                    w.log[k] = "underlying.Close" =>
                        (k > 1 /\ w.log[k - 1] = "WriteCloser.Close")
              /\ w.fClosed => (w.gzClosed /\ w.gzErr = "" /\ w.pend = <<>>)
              /\ w.closeRet = "ok" => (w.gzClosed /\ w.fClosed)
    /\ (ret.op = "Close" /\ ret.err = "") =>
          LET w == writers[ret.val[1]]
          IN  /\ w.log = <<"WriteCloser.Close", "underlying.Close">>
              /\ fs[w.path].data # <<>>
              /\ fs[w.path].data[w.off] = GZTrailer(w.plain)

\* C10 witness: a writer that wrote a chunk was closed without an error.
C10_Witness ==
    /\ ret.op = "Close"
    /\ ret.err = ""
    /\ Len(writers[ret.val[1]].chunks) = 1
    /\ writers[ret.val[1]].log = <<"WriteCloser.Close", "underlying.Close">>
    /\ writers[ret.val[1]].fClosed

\* C11: after Channels(), Users() or Open(name) returned an error, no handle
\* opened during the call (raw file handle, decompressed temporary stream)
\* is still open.
C11_HandlesReleased ==
    (ret.op \in {"Channels", "Users", "Open"} /\ ret.err # "") => ret.left = <<>>

\* C12: OpenRAW(filename) looks for the file with the literal name filename
\* inside the directory (the root joined with filename, no extension
\* appended), and Open(name) looks for root/name.json.gz, the file
\* Create(name) writes.
C12_RawInsideDirectory ==
    /\ ret.op = "OpenRAW" => ret.visited = <<Dir \o ret.arg>>
    /\ ret.op = "Open" => ret.visited = <<filename(ret.arg[1])>>

\* C13: RemoveAll() returns no error and leaves nothing of the directory or
\* below it, touching nothing outside; on an absent directory it succeeds
\* and changes nothing; and while the directory is absent, OpenDir on its
\* path fails, and only CreateDir brings the directory back.
C13_RemoveAllIdempotent ==
    /\ [][ret'.op = "RemoveAll" =>
            /\ ret'.err = ""
            /\ \A p \in DOMAIN fs :
                  fs'[p] = IF Below(Dir, p) THEN Absent ELSE fs[p]
            /\ (fs[Dir].kind = "none" => fs' = fs)]_vars
    /\ []((ret.op = "OpenDir" /\ ret.arg = Dir /\ fs[Dir].kind = "none")
             => (ret.err # "" /\ ret.val = <<>>))
    /\ [][(fs[Dir].kind = "none" /\ ret'.op # "CreateDir")
             => fs'[Dir].kind = "none"]_vars

\* C13 witness: OpenDir failed on the directory RemoveAll removed with all
\* that was below it; the file beside the directory is still there.
C13_Witness ==
    /\ ret.op = "OpenDir"
    /\ ret.arg = Dir
    /\ ret.err = "ENOENT"
    /\ \A p \in DOMAIN fs : Below(Dir, p) => fs[p] = Absent
    /\ fs[<<"C1" \o ext>>].kind = "file"

\* C14: what the consumer received from the channel of Generator(ctx) is a
\* prefix of the Include list, in order; the channel is closed at most once,
\* by the task as it returns, and only when all entries were sent or the
\* context was cancelled; nothing is delivered after the close; and a close
\* without cancellation finds the whole Include list received.
C14_GeneratorPrefix ==
    /\ [](/\ Len(gen.received) <= Len(gen.Include)
          /\ gen.received = SubSeq(gen.Include, 1, Len(gen.received))
          /\ gen.closes <= 1
          /\ gen.closes = 1 <=> gen.pc = "returned"
          /\ gen.closes = 1 => (gen.i > Len(gen.Include) \/ gen.cancelled)
          /\ (gen.closes = 1 /\ ~gen.cancelled) => gen.received = gen.Include)
    /\ [][/\ gen.closes = 1 => (gen'.received = gen.received /\ gen'.closes = 1)
          /\ gen'.received # gen.received =>
                gen'.received = Append(gen.received, gen.Include[Len(gen.received) + 1])]_vars

\* C14 witness: the channel was closed, without cancellation, after the
\* consumer received all the entries of the longest list.
C14_Witness ==
    /\ gen.closes = 1
    /\ ~gen.cancelled
    /\ Len(gen.Include) = MaxInclude
    /\ gen.received = gen.Include

\* C15: once the caller has cancelled the context, no further entry is
\* delivered on the channel, even when a consumer is ready to receive.
C15_NoSendAfterCancel ==
    [][gen.cancelled => gen'.received = gen.received]_vars

\* C16: a Create(name) that finds name.json.gz existing, of any size, zero
\* length included, fails and hands out no writer; so no two writers are
\* ever onto the same file.
C16_CreateExclusive ==
    /\ [][(ret'.op = "Create" /\ Stat(fs, filename(ret'.arg[1])).err = "")
             => (ret'.err # "" /\ writers' = writers)]_vars
    /\ [](\A i, j \in 1 .. Len(writers) :
             i # j => writers[i].path # writers[j].path)

\* The cache file name an option is to set for the file name it is given.
CacheNameFor(old, fname) ==
    IF fname = <<>> THEN old
    ELSE IF Ext(fname) = <<>> \/ Ext(fname) = <<".">> THEN fname \o cacheExt
    ELSE fname

\* C17: WithUserCacheBase(filename) and WithChannelCacheBase(filename) leave
\* the manager as it is for an empty filename; for a filename with no
\* extension (or only a trailing dot) the cache file name becomes filename
\* with ".cache" appended, and for a filename with an extension it becomes
\* filename; each option sets its own file name only.
C17_CacheBaseExt ==
    [][/\ mgr'.opt = "WithUserCacheBase" =>
             /\ mgr'.userFile = CacheNameFor(mgr.userFile, mgr'.arg)
             /\ mgr'.channelFile = mgr.channelFile
       /\ mgr'.opt = "WithChannelCacheBase" =>
             /\ mgr'.channelFile = CacheNameFor(mgr.channelFile, mgr'.arg)
             /\ mgr'.userFile = mgr.userFile]_vars

\* C18: when the Close of the compression layer fails, the Close of the
\* writer still closes the underlying file handle before it returns, and
\* the error it returns is the compression layer's.
C18_CloseBothLayers ==
    (ret.op = "Close" /\ ret.err # "") =>
        /\ writers[ret.val[1]].fClosed
        /\ ret.err = writers[ret.val[1]].gzErr

\* C19: Channels() takes the channels file exactly when channels.json.gz is
\* there as a regular file, readable or not: a channels file that is
\* zero-length or does not decompress or decode as a JSON array makes
\* Channels() return that file's error and no channels, with no chunk file
\* visited, whatever ChannelInfo chunks the chunk files hold.
C19_PhaseByExistence ==
    ret.op = "Channels" =>
        /\ HasChannelsFile <=> ret.visited = <<filename("channels")>>
        /\ (HasChannelsFile /\ ~SnapshotDecodes(fs[filename("channels")].data)) =>
              /\ ret.err # ""
              /\ ret.val = <<>>
              /\ \A i \in 1 .. Len(ret.opened) : ret.opened[i] = filename("channels")
        /\ (HasChannelsFile /\ fs[filename("channels")].data = <<>>) =>
              ret.err = "chunk file is empty"

\* C19 witness: Channels() failed on a channels file that decompresses but
\* is no JSON array, beside a chunk file that holds a ChannelInfo chunk.
C19_Witness ==
    /\ ret.op = "Channels"
    /\ fs[filename("channels")] = FileNode(GZip(<<JSONJunk>>))
    /\ InfoChannelsIn(fs[filename("C1")].data) = <<ChannelRec("CA")>>
    /\ ret.err # ""
    /\ ret.val = <<>>
    /\ ret.visited = <<filename("channels")>>

\* C20: under a scheduler that runs the task when it can take a step, the
\* task returns and closes the channel, unless from some point on entries
\* are pending, the consumer is not receiving and the context is not (and
\* so never was) cancelled: it stays blocked for ever only when the
\* consumer stops receiving before the end of the list and the context is
\* never cancelled.
C20_TaskTerminates ==
    \/ <>(gen.closes = 1 /\ gen.pc = "returned")
    \/ <>[](/\ ~gen.cancelled
            /\ gen.consumer # "receiving"
            /\ gen.i <= Len(gen.Include)
            /\ gen.pc = "select")

\* C20 witness: the consumer stopped receiving after one entry with entries
\* pending, and the cancellation let the task return and close the channel.
C20_Witness ==
    /\ gen.consumer = "stopped"
    /\ Len(gen.received) = 1
    /\ gen.i <= Len(gen.Include)
    /\ gen.cancelled
    /\ gen.closes = 1
    /\ gen.pc = "returned"

\* The elements of a sequence.
RangeOf(s) == {s[i] : i \in 1 .. Len(s)}

\* A list of entities in ascending order, none twice.
StrictlySorted(s) ==
    \A i, j \in 1 .. Len(s) :
        i < j => (CHOOSE k \in 1 .. MaxEntity : Entity(k) = s[i]) <
                 (CHOOSE k \in 1 .. MaxEntity : Entity(k) = s[j])

\* The entities a list of entries names plain (as identifier or URL) and
\* those it names with the exclusion prefix.
PlainIn(es) ==
    {e[Len(e)] : e \in {x \in RangeOf(es) : x # <<>> /\ x[1] \notin {"^", "@", "#"}}}

ExcludedIn(es) == {e[Len(e)] : e \in {x \in RangeOf(es) : Len(x) > 1 /\ x[1] = "^"}}

\* The entries of the list handed to NewEntityList together with the lines
\* of the files it names.
AllEntries ==
    ent.in \o (IF <<"@", "f1">> \in RangeOf(ent.in) /\ ent.files["f1"] # <<>>
               THEN ent.files["f1"].lines
               ELSE <<>>)

\* C21: when NewEntityList returns a list, Include and Exclude are each
\* sorted and free of duplicates and have no entity in common; Exclude holds
\* every entity named with the "^" prefix, in the list or in an "@file" of
\* it, whatever the order, and Include the other entities named; empty
\* entries and a bare "^" or "@" name nothing.
C21_ExclusionWins ==
    (ent.op = "NewEntityList" /\ ent.out.err = "") =>
        /\ StrictlySorted(ent.out.Include)
        /\ StrictlySorted(ent.out.Exclude)
        /\ RangeOf(ent.out.Include) \cap RangeOf(ent.out.Exclude) = {}
        /\ RangeOf(ent.out.Exclude) = ExcludedIn(AllEntries)
        /\ RangeOf(ent.out.Include) = PlainIn(AllEntries) \ ExcludedIn(AllEntries)

\* C21 witness: an entity excluded ahead of its plain entry, and included
\* by the file that excludes another, with a bare "^" in the list.
C21_Witness ==
    /\ ent.op = "NewEntityList"
    /\ ent.in = << <<"^", Entity(1)>>, <<"@", "f1">>, <<"^">> >>
    /\ ent.files["f1"] = [lines |-> <<<<Entity(1)>>, <<"^", Entity(2)>>>>, nl |-> TRUE]
    /\ ent.out = [err |-> "", Include |-> <<>>, Exclude |-> <<Entity(1), Entity(2)>>]

\* The number of lines of the input handed to readEntityList that are
\* neither blank nor comments.
EntryCount ==
    Cardinality({k \in 1 .. Len(ent.in.lines) :
                    LET line == TrimSpace(ent.in.lines[k])
                    IN  line # <<>> /\ line[1] # "#"})

\* C22: readEntityList succeeds on every input with at most maxEntries
\* lines that are neither blank nor comments, whether or not a newline ends
\* the last line, and returns "maximum file size exceeded" on every input
\* with more.
C22_LimitExact ==
    ent.op = "readEntityList" =>
        IF EntryCount <= ent.max
        THEN ent.out.err = ""
        ELSE ent.out.err = "maximum file size exceeded"

\* C23: a name Current returns without error is in the list; and when the
\* saved selection is missing or names a workspace that is not in the list,
\* Current fails with ErrNoWorkspaces when the directory has no workspace
\* file, else returns "default" and saves it as the selection when the
\* default workspace exists, and fails with ErrNoDefault when it does not.
C23_CurrentExists ==
    [][wsp'.op = "Current" =>
        /\ wsp'.err = "" => Exists(wsp'.files, wsp'.val)
        /\ (~wsp.sel.exists \/ ~Exists(wsp.files, wsp.sel.text)) =>
              IF wsp.files = {} THEN wsp'.err = "ErrNoWorkspaces"
              ELSE IF defCredsFile \in wsp.files
              THEN /\ wsp'.err = ""
                   /\ wsp'.val = defName
                   /\ wsp'.sel = [exists |-> TRUE, text |-> defName]
              ELSE wsp'.err = "ErrNoDefault"]_vars

\* C24: Select succeeds exactly when the workspace is in the list, and
\* when it fails the error is "no such workspace" and workspace.txt is
\* left as it was; and Current returns the name the last Select that
\* succeeded was given, as long as that workspace has not been deleted.
C24_SelectThenCurrent ==
    [][/\ wsp'.op = "Select" =>
            /\ wsp'.err = "" <=> Exists(wsp.files, wsp'.arg)
            /\ wsp'.err # "" => wsp'.err = "no such workspace" /\ wsp'.sel = wsp.sel
       /\ (wsp'.op = "Current" /\ wsp.last # <<>>) =>
            wsp'.err = "" /\ wsp'.val = wsp.last[1]]_vars

====
